---- MODULE Spec2Model ----
(***************************************************************************)
(* A model of cce's ProviderManager (src/src/provider.rs): the provider    *)
(* registry operations list / add / remove / use / use --eval / check on   *)
(* an in-memory Config, the persisted Config behind Config::save, and the  *)
(* two environment variables of the CLI process.                           *)
(*                                                                         *)
(* Strings are sequences of Unicode code points (naturals).  Rust's        *)
(* String::len and the range slice &s[..n] count UTF-8 bytes, so a string  *)
(* keeps the byte width of each of its characters and a slice that ends    *)
(* inside a character panics.                                              *)
(***************************************************************************)
EXTENDS Integers, Sequences, FiniteSets

VARIABLES
    config,     \* the in-memory Config of the last invocation, as it ended
    store,      \* the persisted Config (what Config::save last wrote)
    env,        \* the process environment: the two ANTHROPIC_* variables
    stdout,     \* lines the last operation wrote to standard output
    stderr,     \* lines the last operation wrote to the error stream
    ret,        \* how the last operation ended: "Ok", "Err" or "Panic"
    saves,      \* the outcomes of the Config::save calls the last operation made
    op,         \* the last operation and its arguments
    inv         \* two invocations that run side by side: what each loaded,
                \* holds in memory and did

vars == <<config, store, env, stdout, stderr, ret, saves, op, inv>>

----------------------------------------------------------------------------
(* Option<T>: None is the empty sequence, Some(x) a one-element sequence.  *)

None == <<>>

Some(x) == <<x>>

IsSome(o) == Len(o) = 1

Unwrap(o) == o[1]

----------------------------------------------------------------------------
(* Strings and UTF-8.                                                      *)

\* "****"
Mask == <<42, 42, 42, 42>>

\* the number of bytes of a token that are displayed
MaskPrefixLen == 8

\* char::len_utf8
Utf8Width(c) == IF c < 128 THEN 1 ELSE IF c < 2048 THEN 2 ELSE IF c < 65536 THEN 3 ELSE 4

RECURSIVE StrLen(_)
\* String::len: the length in bytes
StrLen(s) == IF s = <<>> THEN 0 ELSE Utf8Width(Head(s)) + StrLen(Tail(s))

\* str::is_char_boundary
IsCharBoundary(s, n) == \E k \in 0..Len(s) : StrLen(SubSeq(s, 1, k)) = n

\* &s[..n] where n is a char boundary: the characters in the first n bytes
SliceTo(s, n) == SubSeq(s, 1, CHOOSE k \in 0..Len(s) : StrLen(SubSeq(s, 1, k)) = n)

Min(a, b) == IF a <= b THEN a ELSE b

----------------------------------------------------------------------------
(* The values operations are called with.                                  *)

\* provider names "a" and "b"
Names == { <<97>>, <<98>> }

\* "https://x" and "https://y"
Urls == { <<104, 116, 116, 112, 115, 58, 47, 47, 120>>,
          <<104, 116, 116, 112, 115, 58, 47, 47, 121>> }

\* "abc": shorter than MaskPrefixLen bytes
TokShort == <<97, 98, 99>>

\* "tok12345678": longer than MaskPrefixLen bytes, one byte per character
TokLong == <<116, 111, 107, 49, 50, 51, 52, 53, 54, 55, 56>>

\* "1234567" followed by U+00E9, whose two bytes are bytes 7 and 8
TokWide == <<49, 50, 51, 52, 53, 54, 55, 233>>

Tokens == { TokShort, TokLong, TokWide }

----------------------------------------------------------------------------
(* Config and Provider (crate::config).                                    *)

Provider(api_url, token) == [api_url |-> api_url, token |-> token]

Entry(name, provider) == [name |-> name, provider |-> provider]

EmptyConfig == [providers |-> <<>>, current_provider |-> None]

\* the names in registry order
ProviderNames(cfg) == { cfg.providers[i].name : i \in 1..Len(cfg.providers) }

\* config.providers.contains_key(name)
ContainsKey(cfg, name) == name \in ProviderNames(cfg)

\* config.providers.get(name).unwrap()
GetProvider(cfg, name) ==
    LET i == CHOOSE j \in 1..Len(cfg.providers) : cfg.providers[j].name = name
    IN  cfg.providers[i].provider

\* Config::add_provider: insert, replacing the entry of an existing name
ConfigAddProvider(cfg, name, api_url, token) ==
    LET e == Entry(name, Provider(api_url, token))
    IN  [cfg EXCEPT !.providers =
            IF ContainsKey(cfg, name)
            THEN [i \in 1..Len(cfg.providers) |->
                    IF cfg.providers[i].name = name THEN e ELSE cfg.providers[i]]
            ELSE Append(cfg.providers, e)]

\* Config::remove_provider: delete the entry; current_provider is not touched
ConfigRemoveProvider(cfg, name) ==
    [cfg EXCEPT !.providers = SelectSeq(cfg.providers, LAMBDA e : e.name # name)]

\* Config::set_current_provider
ConfigSetCurrentProvider(cfg, name) == [cfg EXCEPT !.current_provider = Some(name)]

\* Config::save: the store takes the in-memory Config, or the save fails
ConfigSave(cfg, st, saveOk) == IF saveOk THEN cfg ELSE st

\* Config::load: every invocation of the program starts from the store
ConfigLoad(st) == st

----------------------------------------------------------------------------
(* Output lines: the format string of the println!/eprintln! call and the  *)
(* strings it is given.  Constant arguments are folded into the format     *)
(* string; colour and pictographs are dropped.                             *)

Line(fmt, args) == [fmt |-> fmt, args |-> args]

Text(fmt) == Line(fmt, <<>>)

\* what an operation leaves behind
Result(cfg, st, e, out, err, r, sv) ==
    [config |-> cfg, store |-> st, env |-> e, stdout |-> out, stderr |-> err,
     ret |-> r, saves |-> sv]

----------------------------------------------------------------------------
(* list_providers                                                          *)

\* the markers U+25CF and U+25CB
ActiveMarker == <<9679>>

InactiveMarker == <<9675>>

IsCurrent(cfg, name) == cfg.current_provider = Some(name)

\* &provider.token[..provider.token.len().min(8)] panics off a char boundary
ListSlicePanics(token) == ~IsCharBoundary(token, Min(StrLen(token), MaskPrefixLen))

\* the token as "    Token: {}****" shows it
ListTokenField(token) == SliceTo(token, Min(StrLen(token), MaskPrefixLen)) \o Mask

EntryHead(cfg, e) ==
    << Line("  {} {}", <<IF IsCurrent(cfg, e.name) THEN ActiveMarker ELSE InactiveMarker,
                         e.name>>),
       Line("    API URL: {}", <<e.provider.api_url>>) >>

EntryToken(e) == Line("    Token: {}", <<ListTokenField(e.provider.token)>>)

EntryTail(cfg, e) ==
    (IF IsCurrent(cfg, e.name) THEN <<Text("    (currently active)")>> ELSE <<>>)
    \o <<Text("")>>

RECURSIVE ListEntries(_, _)
\* the loop over config.providers: the lines printed, and whether it ran to the end
ListEntries(cfg, entries) ==
    IF entries = <<>> THEN [lines |-> <<>>, done |-> TRUE]
    ELSE LET e == Head(entries)
         IN  IF ListSlicePanics(e.provider.token)
             THEN [lines |-> EntryHead(cfg, e), done |-> FALSE]
             ELSE LET rest == ListEntries(cfg, Tail(entries))
                  IN  [lines |-> EntryHead(cfg, e) \o <<EntryToken(e)>>
                                 \o EntryTail(cfg, e) \o rest.lines,
                       done |-> rest.done]

ListProviders(cfg, st, e) ==
    IF cfg.providers = <<>>
    THEN Result(cfg, st, e, <<Text("No service providers configured")>>, <<>>, "Ok", <<>>)
    ELSE LET body == ListEntries(cfg, cfg.providers)
         IN  Result(cfg, st, e,
                    <<Text("Configured service providers:"), Text("")>> \o body.lines,
                    <<>>, IF body.done THEN "Ok" ELSE "Panic", <<>>)

----------------------------------------------------------------------------
(* add_provider and remove_provider                                        *)

\* AddWarning without the contains_key test
AddWarningAlways(cfg, name) ==
    <<Line("Service provider '{}' already exists, overwriting", <<name>>)>>

\* the warning printed when the name is already a key of config.providers
AddWarning(cfg, name) ==
    IF ContainsKey(cfg, name)
    THEN <<Line("Service provider '{}' already exists, overwriting", <<name>>)>>
    ELSE <<>>

\* AddSuccess with the notice printed before the save is tried
AddSuccessBeforeSave(name, saveOk) ==
    <<Line("Successfully added service provider '{}'", <<name>>)>>

\* config.save()? followed by the success notice: an Err returns before it
AddSuccess(name, saveOk) ==
    IF saveOk THEN <<Line("Successfully added service provider '{}'", <<name>>)>> ELSE <<>>

\* AddProvider adding to the Config in the store, not to the one it was given
AddProviderOnStore(cfg, st, e, name, api_url, token, saveOk) ==
    LET cfg1 == ConfigAddProvider(st, name, api_url, token)
    IN  Result(cfg1, ConfigSave(cfg1, st, saveOk), e,
               AddWarning(cfg, name) \o AddSuccess(name, saveOk),
               <<>>, IF saveOk THEN "Ok" ELSE "Err", <<saveOk>>)

AddProvider(cfg, st, e, name, api_url, token, saveOk) ==
    LET cfg1 == ConfigAddProvider(cfg, name, api_url, token)
    IN  Result(cfg1, ConfigSave(cfg1, st, saveOk), e,
               AddWarning(cfg, name) \o AddSuccess(name, saveOk),
               <<>>, IF saveOk THEN "Ok" ELSE "Err", <<saveOk>>)

\* RemoveProvider without the contains_key test: it removes and saves always
RemoveProviderAlwaysSaves(cfg, st, e, name, saveOk) ==
    LET cfg1 == ConfigRemoveProvider(cfg, name)
    IN  IF saveOk
        THEN Result(cfg1, ConfigSave(cfg1, st, saveOk), e,
                    <<Line("Successfully removed service provider '{}'", <<name>>)>>,
                    <<>>, "Ok", <<saveOk>>)
        ELSE Result(cfg1, ConfigSave(cfg1, st, saveOk), e, <<>>, <<>>, "Err", <<saveOk>>)

\* RemoveProvider without the config.save() call
RemoveProviderNoSave(cfg, st, e, name, saveOk) ==
    IF ~ContainsKey(cfg, name)
    THEN Result(cfg, st, e, <<Line("Service provider '{}' does not exist", <<name>>)>>,
                <<>>, "Ok", <<>>)
    ELSE Result(ConfigRemoveProvider(cfg, name), st, e,
                <<Line("Successfully removed service provider '{}'", <<name>>)>>,
                <<>>, "Ok", <<>>)

RemoveProvider(cfg, st, e, name, saveOk) ==
    IF ~ContainsKey(cfg, name)
    THEN Result(cfg, st, e, <<Line("Service provider '{}' does not exist", <<name>>)>>,
                <<>>, "Ok", <<>>)
    ELSE LET cfg1 == ConfigRemoveProvider(cfg, name)
         IN  IF saveOk
             THEN Result(cfg1, ConfigSave(cfg1, st, saveOk), e,
                         <<Line("Successfully removed service provider '{}'", <<name>>)>>,
                         <<>>, "Ok", <<saveOk>>)
             ELSE Result(cfg1, ConfigSave(cfg1, st, saveOk), e, <<>>, <<>>, "Err", <<saveOk>>)

----------------------------------------------------------------------------
(* use_provider, set_environment_variables and use_provider_eval           *)

EmptyEnv == [ANTHROPIC_AUTH_TOKEN |-> None, ANTHROPIC_BASE_URL |-> None]

\* SetVars with the second set_var given the token again
SetVarsTokenTwice(e, provider) ==
    [ANTHROPIC_AUTH_TOKEN |-> Some(provider.token),
     ANTHROPIC_BASE_URL |-> Some(provider.token)]

\* the two std::env::set_var calls
SetVars(e, provider) ==
    [ANTHROPIC_AUTH_TOKEN |-> Some(provider.token),
     ANTHROPIC_BASE_URL |-> Some(provider.api_url)]

\* ExportLines with the two println! calls in the other order
ExportLinesSwapped(provider) ==
    << Line("export ANTHROPIC_BASE_URL=\"{}\"", <<provider.api_url>>),
       Line("export ANTHROPIC_AUTH_TOKEN=\"{}\"", <<provider.token>>) >>

\* the two export lines, as both switch variants print them
ExportLines(provider) ==
    << Line("export ANTHROPIC_AUTH_TOKEN=\"{}\"", <<provider.token>>),
       Line("export ANTHROPIC_BASE_URL=\"{}\"", <<provider.api_url>>) >>

\* set_environment_variables: the environment and the lines printed
SetEnvironmentVariables(e, provider) ==
    [env |-> SetVars(e, provider), lines |-> ExportLines(provider)]

\* AlreadyUsing without the comparison: the switch is always re-applied
AlreadyUsingNever(cfg, name) == FALSE

\* the "already active" short-circuit of use_provider
AlreadyUsing(cfg, name) ==
    IsSome(cfg.current_provider) /\ Unwrap(cfg.current_provider) = name

\* UseProvider with set_environment_variables called before config.save()
UseProviderEnvBeforeSave(cfg, st, e, name, saveOk) ==
    IF ~ContainsKey(cfg, name)
    THEN Result(cfg, st, e, <<Line("Service provider '{}' does not exist", <<name>>)>>,
                <<>>, "Ok", <<>>)
    ELSE IF AlreadyUsing(cfg, name)
    THEN Result(cfg, st, e, <<Line("Already using service provider '{}'", <<name>>)>>,
                <<>>, "Ok", <<>>)
    ELSE LET provider == GetProvider(cfg, name)
             cfg1 == ConfigSetCurrentProvider(cfg, name)
             set == SetEnvironmentVariables(e, provider)
         IN  IF saveOk
             THEN Result(cfg1, ConfigSave(cfg1, st, saveOk), set.env,
                         set.lines
                         \o << Line("Switched to service provider '{}'", <<name>>),
                               Line("  API URL: {}", <<provider.api_url>>) >>,
                         <<>>, "Ok", <<saveOk>>)
             ELSE Result(cfg1, ConfigSave(cfg1, st, saveOk), set.env, set.lines,
                         <<>>, "Err", <<saveOk>>)

UseProvider(cfg, st, e, name, saveOk) ==
    IF ~ContainsKey(cfg, name)
    THEN Result(cfg, st, e, <<Line("Service provider '{}' does not exist", <<name>>)>>,
                <<>>, "Ok", <<>>)
    ELSE IF AlreadyUsing(cfg, name)
    THEN Result(cfg, st, e, <<Line("Already using service provider '{}'", <<name>>)>>,
                <<>>, "Ok", <<>>)
    ELSE LET provider == GetProvider(cfg, name)
             cfg1 == ConfigSetCurrentProvider(cfg, name)
             set == SetEnvironmentVariables(e, provider)
         IN  IF saveOk
             THEN Result(cfg1, ConfigSave(cfg1, st, saveOk), set.env,
                         << Line("Switched to service provider '{}'", <<name>>),
                            Line("  API URL: {}", <<provider.api_url>>),
                            Text(""),
                            Text("To take effect in current terminal, run:") >>
                         \o set.lines,
                         <<>>, "Ok", <<saveOk>>)
             ELSE Result(cfg1, ConfigSave(cfg1, st, saveOk), e, <<>>, <<>>, "Err", <<saveOk>>)

\* UseProviderEval with the "already active" short-circuit of use_provider
UseProviderEvalShortCircuit(cfg, st, e, name, saveOk) ==
    IF ~ContainsKey(cfg, name)
    THEN Result(cfg, st, e, <<>>,
                <<Line("# Error: Service provider '{}' does not exist", <<name>>)>>,
                "Ok", <<>>)
    ELSE IF AlreadyUsing(cfg, name)
    THEN Result(cfg, st, e, <<>>, <<>>, "Ok", <<>>)
    ELSE LET provider == GetProvider(cfg, name)
             cfg1 == ConfigSetCurrentProvider(cfg, name)
         IN  Result(cfg1, ConfigSave(cfg1, st, saveOk), e,
                    IF saveOk
                    THEN << Line("export ANTHROPIC_AUTH_TOKEN=\"{}\"", <<provider.token>>),
                            Line("export ANTHROPIC_BASE_URL=\"{}\"", <<provider.api_url>>) >>
                    ELSE <<>>,
                    <<>>, IF saveOk THEN "Ok" ELSE "Err", <<saveOk>>)

\* UseProviderEval reporting an unknown name the way use_provider does
UseProviderEvalOnStdout(cfg, st, e, name, saveOk) ==
    IF ~ContainsKey(cfg, name)
    THEN Result(cfg, st, e, <<Line("Service provider '{}' does not exist", <<name>>)>>,
                <<>>, "Ok", <<>>)
    ELSE LET provider == GetProvider(cfg, name)
             cfg1 == ConfigSetCurrentProvider(cfg, name)
         IN  Result(cfg1, ConfigSave(cfg1, st, saveOk), e,
                    IF saveOk
                    THEN << Line("export ANTHROPIC_AUTH_TOKEN=\"{}\"", <<provider.token>>),
                            Line("export ANTHROPIC_BASE_URL=\"{}\"", <<provider.api_url>>) >>
                    ELSE <<>>,
                    <<>>, IF saveOk THEN "Ok" ELSE "Err", <<saveOk>>)

\* UseProviderEval without the contains_key test
UseProviderEvalUnchecked(cfg, st, e, name, saveOk) ==
    LET cfg1 == ConfigSetCurrentProvider(cfg, name)
    IN  Result(cfg1, ConfigSave(cfg1, st, saveOk), e,
               IF saveOk /\ ContainsKey(cfg, name)
               THEN << Line("export ANTHROPIC_AUTH_TOKEN=\"{}\"",
                            <<GetProvider(cfg, name).token>>),
                       Line("export ANTHROPIC_BASE_URL=\"{}\"",
                            <<GetProvider(cfg, name).api_url>>) >>
               ELSE <<>>,
               <<>>, IF saveOk THEN "Ok" ELSE "Err", <<saveOk>>)

\* UseProviderEval ending with set_environment_variables, as use_provider does
UseProviderEvalSetsEnv(cfg, st, e, name, saveOk) ==
    IF ~ContainsKey(cfg, name)
    THEN Result(cfg, st, e, <<>>,
                <<Line("# Error: Service provider '{}' does not exist", <<name>>)>>,
                "Ok", <<>>)
    ELSE LET provider == GetProvider(cfg, name)
             cfg1 == ConfigSetCurrentProvider(cfg, name)
             set == SetEnvironmentVariables(e, provider)
         IN  IF saveOk
             THEN Result(cfg1, ConfigSave(cfg1, st, saveOk), set.env,
                         set.lines, <<>>, "Ok", <<saveOk>>)
             ELSE Result(cfg1, ConfigSave(cfg1, st, saveOk), e, <<>>, <<>>, "Err", <<saveOk>>)

\* the two println! calls of use_provider_eval
EvalExportLines(provider) ==
    << Line("export ANTHROPIC_AUTH_TOKEN=\"{}\"", <<provider.token>>),
       Line("export ANTHROPIC_BASE_URL=\"{}\"", <<provider.api_url>>) >>

UseProviderEval(cfg, st, e, name, saveOk) ==
    IF ~ContainsKey(cfg, name)
    THEN Result(cfg, st, e, <<>>,
                <<Line("# Error: Service provider '{}' does not exist", <<name>>)>>,
                "Ok", <<>>)
    ELSE LET provider == GetProvider(cfg, name)
             cfg1 == ConfigSetCurrentProvider(cfg, name)
         IN  IF saveOk
             THEN Result(cfg1, ConfigSave(cfg1, st, saveOk), e,
                         EvalExportLines(provider), <<>>, "Ok", <<saveOk>>)
             ELSE Result(cfg1, ConfigSave(cfg1, st, saveOk), e, <<>>, <<>>, "Err", <<saveOk>>)

----------------------------------------------------------------------------
(* check_environment                                                       *)

\* &key[..8] panics when byte 8 is inside a character
CheckSlicePanics(key) == StrLen(key) > MaskPrefixLen /\ ~IsCharBoundary(key, MaskPrefixLen)

\* masked_key
MaskedKey(key) ==
    IF StrLen(key) > MaskPrefixLen THEN SliceTo(key, MaskPrefixLen) \o Mask ELSE Mask

KeyLine(e) ==
    IF IsSome(e.ANTHROPIC_AUTH_TOKEN)
    THEN Line("  ANTHROPIC_AUTH_TOKEN: {}", <<MaskedKey(Unwrap(e.ANTHROPIC_AUTH_TOKEN))>>)
    ELSE Text("  ANTHROPIC_AUTH_TOKEN: Not set")

UrlLine(e) ==
    IF IsSome(e.ANTHROPIC_BASE_URL)
    THEN Line("  ANTHROPIC_BASE_URL: {}", <<Unwrap(e.ANTHROPIC_BASE_URL)>>)
    ELSE Text("  ANTHROPIC_BASE_URL: Not set")

\* env_matches
EnvMatches(e, provider) ==
    IF IsSome(e.ANTHROPIC_AUTH_TOKEN) /\ IsSome(e.ANTHROPIC_BASE_URL)
    THEN Unwrap(e.ANTHROPIC_AUTH_TOKEN) = provider.token
         /\ Unwrap(e.ANTHROPIC_BASE_URL) = provider.api_url
    ELSE FALSE

MatchLine == Text("  Status: Environment variables match configuration")

MismatchLine == Text("  Status: Environment variables do not match configuration")

ResetSuggestion(name) == Line("  Suggestion: Run 'cce use {}' to reset", <<name>>)

ConfigErrorLine == Text("Configuration error: Current provider does not exist")

NoneSelectedLine == Text("  Current provider: None selected")

UseSuggestion == Text("  Suggestion: Use 'cce use <provider-name>' to select a provider")

AddSuggestion == Text("  Suggestion: Use 'cce add' to add a service provider")

\* the "Check configuration status" block
StatusLines(cfg, e) ==
    IF IsSome(cfg.current_provider)
    THEN LET current == Unwrap(cfg.current_provider)
         IN  IF ContainsKey(cfg, current)
             THEN LET provider == GetProvider(cfg, current)
                  IN  << Text("CCE configuration status:"),
                         Line("  Current provider: {}", <<current>>),
                         Line("  Configured URL: {}", <<provider.api_url>>) >>
                      \o (IF EnvMatches(e, provider)
                          THEN <<MatchLine>>
                          ELSE <<MismatchLine, ResetSuggestion(current)>>)
             ELSE <<ConfigErrorLine>>
    ELSE << Text("CCE configuration status:"), NoneSelectedLine >>
         \o (IF cfg.providers # <<>> THEN <<UseSuggestion>> ELSE <<AddSuggestion>>)

CheckEnvironment(cfg, st, e) ==
    LET head == << Text("Checking environment variable status"), Text(""),
                   Text("Current environment variables:") >>
    IN  IF IsSome(e.ANTHROPIC_AUTH_TOKEN) /\ CheckSlicePanics(Unwrap(e.ANTHROPIC_AUTH_TOKEN))
        THEN Result(cfg, st, e, head, <<>>, "Panic", <<>>)
        ELSE Result(cfg, st, e,
                    head \o <<KeyLine(e), UrlLine(e), Text("")>> \o StatusLines(cfg, e),
                    <<>>, "Ok", <<>>)

----------------------------------------------------------------------------
(* The state machine.  The program is run once per operation: an          *)
(* invocation loads the Config from the store, calls one operation of      *)
(* ProviderManager on it and exits.  Each action is one invocation.        *)

\* the invocations of the program that may run side by side
Invocations == {1, 2}

\* an invocation that has not been started
IdleInvocation ==
    [pc |-> "idle", loaded |-> EmptyConfig, config |-> EmptyConfig, loadedAfter |-> 0,
     call |-> [kind |-> "start", args |-> <<>>], saves |-> <<>>, ret |-> "Ok", rank |-> 0]

Init ==
    /\ config = EmptyConfig
    /\ store = EmptyConfig
    /\ env = EmptyEnv
    /\ stdout = <<>>
    /\ stderr = <<>>
    /\ ret = "Ok"
    /\ saves = <<>>
    /\ op = [kind |-> "start", args |-> <<>>]
    /\ inv = [p \in Invocations |-> IdleInvocation]

\* the outcomes Config::save may have
SaveOutcomes == {TRUE, FALSE}

\* the operation `kind` was called with `args` and left `r` behind
Apply(kind, args, r) ==
    /\ config' = r.config
    /\ store' = r.store
    /\ env' = r.env
    /\ stdout' = r.stdout
    /\ stderr' = r.stderr
    /\ ret' = r.ret
    /\ saves' = r.saves
    /\ op' = [kind |-> kind, args |-> args]

List == Apply("list", <<>>, ListProviders(ConfigLoad(store), store, env)) /\ UNCHANGED inv

Add ==
    \E name \in Names, api_url \in Urls, token \in Tokens, saveOk \in SaveOutcomes :
        Apply("add", <<name, api_url, token>>,
              AddProvider(ConfigLoad(store), store, env, name, api_url, token, saveOk))
        /\ UNCHANGED inv

Remove ==
    \E name \in Names, saveOk \in SaveOutcomes :
        Apply("remove", <<name>>,
              RemoveProvider(ConfigLoad(store), store, env, name, saveOk))
        /\ UNCHANGED inv

Use ==
    \E name \in Names, saveOk \in SaveOutcomes :
        Apply("use", <<name>>, UseProvider(ConfigLoad(store), store, env, name, saveOk))
        /\ UNCHANGED inv

UseEval ==
    \E name \in Names, saveOk \in SaveOutcomes :
        Apply("use_eval", <<name>>,
              UseProviderEval(ConfigLoad(store), store, env, name, saveOk))
        /\ UNCHANGED inv

Check == Apply("check", <<>>, CheckEnvironment(ConfigLoad(store), store, env)) /\ UNCHANGED inv

\* the environment the next invocation is started in: the shell exports or
\* unsets one of the two variables
SetEnv ==
    \/ \E v \in {None} \cup {Some(t) : t \in Tokens} :
        Apply("env", <<>>, Result(config, store, [env EXCEPT !.ANTHROPIC_AUTH_TOKEN = v],
                                  <<>>, <<>>, "Ok", <<>>))
        /\ UNCHANGED inv
    \/ \E v \in {None} \cup {Some(u) : u \in Urls} :
        Apply("env", <<>>, Result(config, store, [env EXCEPT !.ANTHROPIC_BASE_URL = v],
                                  <<>>, <<>>, "Ok", <<>>))
        /\ UNCHANGED inv

Next == List \/ Add \/ Remove \/ Use \/ UseEval \/ Check \/ SetEnv

Spec == Init /\ [][Next]_vars

----------------------------------------------------------------------------
(* Two invocations side by side.  Each invocation is its own process: it   *)
(* loads the Config from the store into its own memory and later runs its  *)
(* operation on that copy.  Between the load and the operation the other   *)
(* invocation may load, or run and save.  The mutating call of an          *)
(* operation touches the invocation's own memory only, so it is taken in   *)
(* one step with the save that follows it.                                 *)

\* Configs the store may hold when the two invocations start
RaceStores ==
    LET one == ConfigAddProvider(EmptyConfig, <<97>>, CHOOSE u \in Urls : TRUE, TokLong)
        two == ConfigAddProvider(one, <<98>>, CHOOSE u \in Urls : TRUE, TokShort)
    IN  { EmptyConfig, one, ConfigSetCurrentProvider(two, <<98>>) }

InitRace ==
    /\ store \in RaceStores
    /\ config = store
    /\ env = EmptyEnv
    /\ stdout = <<>>
    /\ stderr = <<>>
    /\ ret = "Ok"
    /\ saves = <<>>
    /\ op = [kind |-> "start", args |-> <<>>]
    /\ inv = [p \in Invocations |-> IdleInvocation]

\* the number of invocations that have run their operation
Finished == Cardinality({ q \in Invocations : inv[q].pc = "done" })

\* invocation p starts: Config::load reads the store into its memory
RaceLoad(p) ==
    /\ inv[p].pc = "idle"
    /\ inv' = [inv EXCEPT ![p] = [@ EXCEPT !.pc = "loaded",
                                           !.loaded = ConfigLoad(store),
                                           !.config = ConfigLoad(store),
                                           !.loadedAfter = Finished]]
    /\ UNCHANGED <<config, store, env, stdout, stderr, ret, saves, op>>

\* invocation p ran the operation `kind` on its own Config and it left r behind
Ran(p, kind, args, r) ==
    /\ inv[p].pc = "loaded"
    /\ Apply(kind, args, r)
    /\ inv' = [inv EXCEPT ![p] = [@ EXCEPT !.pc = "done",
                                           !.config = r.config,
                                           !.call = [kind |-> kind, args |-> args],
                                           !.saves = r.saves,
                                           !.ret = r.ret,
                                           !.rank = Finished + 1]]

RaceAdd(p) ==
    \E name \in Names, api_url \in Urls, token \in Tokens, saveOk \in SaveOutcomes :
        Ran(p, "add", <<name, api_url, token>>,
            AddProvider(inv[p].config, store, env, name, api_url, token, saveOk))

RaceRemove(p) ==
    \E name \in Names, saveOk \in SaveOutcomes :
        Ran(p, "remove", <<name>>, RemoveProvider(inv[p].config, store, env, name, saveOk))

RaceUse(p) ==
    \E name \in Names, saveOk \in SaveOutcomes :
        Ran(p, "use", <<name>>, UseProvider(inv[p].config, store, env, name, saveOk))

RaceUseEval(p) ==
    \E name \in Names, saveOk \in SaveOutcomes :
        Ran(p, "use_eval", <<name>>, UseProviderEval(inv[p].config, store, env, name, saveOk))

NextRace ==
    \E p \in Invocations :
        RaceLoad(p) \/ RaceAdd(p) \/ RaceRemove(p) \/ RaceUse(p) \/ RaceUseEval(p)

SpecRace == InitRace /\ [][NextRace]_vars

----------------------------------------------------------------------------
(* Vocabulary of the properties.                                           *)

\* the Config the invocation that is about to run loads
Loaded == ConfigLoad(store)

\* the last step was the operation `kind` called with `args`
Called(kind, args) == op' = [kind |-> kind, args |-> args]

Has(out, line) == \E i \in 1..Len(out) : out[i] = line

IsExportLine(line) ==
    line.fmt \in { "export ANTHROPIC_AUTH_TOKEN=\"{}\"", "export ANTHROPIC_BASE_URL=\"{}\"" }

NoExportLine(out) == \A i \in 1..Len(out) : ~IsExportLine(out[i])

\* no Config::save call of the operation failed
NoSaveFailed(sv) == \A i \in 1..Len(sv) : sv[i]

\* current_provider names a provider that is not configured
Dangling(cfg) ==
    IsSome(cfg.current_provider) /\ ~ContainsKey(cfg, Unwrap(cfg.current_provider))

\* the string s occurs in text
Contains(text, s) ==
    /\ Len(s) <= Len(text)
    /\ \E i \in 0..(Len(text) - Len(s)) : SubSeq(text, i + 1, i + Len(s)) = s

\* field is a proper prefix of the token followed by the mask
IsMasked(field, token) ==
    \E k \in 0..Len(token) : k < Len(token) /\ field = SubSeq(token, 1, k) \o Mask

\* the tokens the operation has before it: the stored ones and the live one
Secrets ==
    { config.providers[i].provider.token : i \in 1..Len(config.providers) }
    \cup (IF IsSome(env.ANTHROPIC_AUTH_TOKEN) THEN {Unwrap(env.ANTHROPIC_AUTH_TOKEN)} ELSE {})

\* the first n characters of s
FirstChars(s, n) == SubSeq(s, 1, Min(n, Len(s)))

\* the status lines of the drift check that are among the lines printed
StatusesReported(out) ==
    { l \in {NoneSelectedLine, ConfigErrorLine, MatchLine, MismatchLine} : Has(out, l) }

\* the export lines among the lines printed, in the order printed
ExportsOf(out) == SelectSeq(out, IsExportLine)

\* the operations of ProviderManager, by the kind recorded in op
Operations == {"list", "add", "remove", "use", "use_eval", "check"}

\* the Config that the mutating call of `call` makes of cfg
Mutated(cfg, call) ==
    CASE call.kind = "add" ->
           ConfigAddProvider(cfg, call.args[1], call.args[2], call.args[3])
      [] call.kind = "remove" -> ConfigRemoveProvider(cfg, call.args[1])
      [] OTHER -> ConfigSetCurrentProvider(cfg, call.args[1])

\* the change that `call` makes to a Config is there in cfg
Present(cfg, call) ==
    CASE call.kind = "add" ->
           /\ ContainsKey(cfg, call.args[1])
           /\ GetProvider(cfg, call.args[1]) = Provider(call.args[2], call.args[3])
      [] call.kind = "remove" -> ~ContainsKey(cfg, call.args[1])
      [] OTHER -> cfg.current_provider = Some(call.args[1])

\* the two calls make the same change: the same add, the same removal, or a
\* switch, in either variant, to the same provider
SameChange(c1, c2) ==
    /\ c1.args = c2.args
    /\ \/ c1.kind = c2.kind
       \/ {c1.kind, c2.kind} = {"use", "use_eval"}

\* p and q both loaded before either ran, p changed its Config and saved it,
\* and q saved after p
LostUpdateRun(p, q) ==
    /\ p # q
    /\ inv[p].pc = "done" /\ inv[q].pc = "done"
    /\ inv[p].loadedAfter = 0 /\ inv[q].loadedAfter = 0
    /\ inv[p].rank = 1 /\ inv[q].rank = 2
    /\ inv[p].saves = <<TRUE>> /\ inv[q].saves = <<TRUE>>
    /\ inv[p].config # inv[p].loaded

\* the format string of the eval-mode diagnostic, which starts with "# Error:"
EvalErrorFmt == "# Error: Service provider '{}' does not exist"

----------------------------------------------------------------------------
(* C1: an interactive switch to a provider N that is configured and is not *)
(* the current one, whose save succeeds, ends with current_provider = N in *)
(* memory and in the store, and with ANTHROPIC_AUTH_TOKEN and              *)
(* ANTHROPIC_BASE_URL of the process equal to N's stored token and URL.    *)
C1_SwitchSetsProviderAndEnv ==
    [][ \A n \in Names :
          ( /\ ContainsKey(Loaded, n)
            /\ ~IsCurrent(Loaded, n)
            /\ Called("use", <<n>>)
            /\ NoSaveFailed(saves') )
          => /\ ret' = "Ok"
             /\ config'.current_provider = Some(n)
             /\ store'.current_provider = Some(n)
             /\ store' = config'
             /\ env'.ANTHROPIC_AUTH_TOKEN = Some(GetProvider(Loaded, n).token)
             /\ env'.ANTHROPIC_BASE_URL = Some(GetProvider(Loaded, n).api_url) ]_vars

\* a switch that saved and set the environment to the new provider's values
C1_Witness ==
    /\ op.kind = "use"
    /\ ret = "Ok"
    /\ saves = <<TRUE>>
    /\ config.current_provider = Some(op.args[1])
    /\ store.current_provider = Some(op.args[1])
    /\ env.ANTHROPIC_AUTH_TOKEN = Some(GetProvider(config, op.args[1]).token)
    /\ env.ANTHROPIC_BASE_URL = Some(GetProvider(config, op.args[1]).api_url)

----------------------------------------------------------------------------
(* C2: an interactive switch to the provider that is already current is a  *)
(* no-op: no save, Config and store unchanged, both environment variables  *)
(* unchanged, no export line, only the "already using" notice, Ok; and     *)
(* doing it again from the state it leaves gives the same again.           *)
C2_SwitchToCurrentIsNoOp ==
    [][ \A n \in Names :
          ( /\ ContainsKey(Loaded, n)
            /\ IsCurrent(Loaded, n)
            /\ Called("use", <<n>>) )
          => /\ saves' = <<>>
             /\ config' = Loaded
             /\ store' = store
             /\ env' = env
             /\ NoExportLine(stdout')
             /\ stdout' = <<Line("Already using service provider '{}'", <<n>>)>>
             /\ stderr' = <<>>
             /\ ret' = "Ok"
             /\ \A saveOk \in SaveOutcomes :
                  UseProvider(ConfigLoad(store'), store', env', n, saveOk)
                    = Result(config', store', env', stdout', stderr', ret', saves') ]_vars

\* a switch to the current provider that printed the notice and saved nothing
C2_Witness ==
    /\ op.kind = "use"
    /\ IsCurrent(config, op.args[1])
    /\ ContainsKey(config, op.args[1])
    /\ stdout = <<Line("Already using service provider '{}'", <<op.args[1]>>)>>
    /\ saves = <<>>
    /\ ret = "Ok"

----------------------------------------------------------------------------
(* C3: an eval-mode switch to a name that is not configured writes nothing *)
(* to standard output and exactly one line, starting with "# Error:", to   *)
(* the error stream; it changes neither providers nor current_provider,    *)
(* does not save, and returns Ok.                                          *)
C3_EvalUnknownNameIsSilent ==
    [][ \A n \in Names :
          ( /\ ~ContainsKey(Loaded, n)
            /\ Called("use_eval", <<n>>) )
          => /\ stdout' = <<>>
             /\ Len(stderr') = 1
             /\ stderr'[1].fmt = EvalErrorFmt
             /\ stderr'[1].args = <<n>>
             /\ config' = Loaded
             /\ store' = store
             /\ saves' = <<>>
             /\ ret' = "Ok" ]_vars

\* an eval-mode switch to an unknown name, with configured providers around
C3_Witness ==
    /\ op.kind = "use_eval"
    /\ ~ContainsKey(config, op.args[1])
    /\ config.providers # <<>>
    /\ stdout = <<>>
    /\ Len(stderr) = 1
    /\ ret = "Ok"

----------------------------------------------------------------------------
(* C4: removing the active provider N leaves N absent from providers with  *)
(* current_provider still Some(N), and every drift check run on such a     *)
(* Config, whatever the two environment variables hold, reports            *)
(* "Current provider does not exist" and neither match nor mismatch.       *)
C4_RemoveActiveThenCheckReportsError ==
    [][ /\ \A n \in Names :
             ( /\ ContainsKey(Loaded, n)
               /\ IsCurrent(Loaded, n)
               /\ Called("remove", <<n>>)
               /\ saves' = <<TRUE>> )
             => /\ ~ContainsKey(config', n)
                /\ config'.current_provider = Some(n)
                /\ store' = config'
        /\ ( Called("check", <<>>) /\ Dangling(Loaded) )
             => /\ Has(stdout', ConfigErrorLine)
                /\ ~Has(stdout', MatchLine)
                /\ ~Has(stdout', MismatchLine) ]_vars

----------------------------------------------------------------------------
(* C5: with current_provider = Some(N) and N configured, the drift check   *)
(* reports "match" exactly when both variables are set and equal N's token *)
(* and URL, and in every other case reports "mismatch" with the suggestion *)
(* to run 'cce use N'.                                                     *)
C5_DriftCheckMatchesIffEqual ==
    ( /\ op.kind = "check"
      /\ IsSome(config.current_provider)
      /\ ContainsKey(config, Unwrap(config.current_provider)) )
    => LET n == Unwrap(config.current_provider)
           equal == /\ env.ANTHROPIC_AUTH_TOKEN = Some(GetProvider(config, n).token)
                    /\ env.ANTHROPIC_BASE_URL = Some(GetProvider(config, n).api_url)
       IN  /\ Has(stdout, MatchLine) <=> equal
           /\ Has(stdout, MismatchLine) <=> ~equal
           /\ Has(stdout, ResetSuggestion(n)) <=> ~equal

----------------------------------------------------------------------------
(* C6: list_providers and check_environment never print a token in full:   *)
(* no string they print contains a complete stored token or the complete   *)
(* live ANTHROPIC_AUTH_TOKEN, and a token field shows a proper prefix of   *)
(* the token followed by the mask, or the mask alone.                      *)
C6_TokensNeverShownInFull ==
    op.kind \in {"list", "check"}
    => \A i \in 1..Len(stdout) :
         /\ \A a \in 1..Len(stdout[i].args), t \in Secrets :
              Len(t) >= 1 => ~Contains(stdout[i].args[a], t)
         /\ stdout[i].fmt = "    Token: {}"
              => \E t \in Secrets : IsMasked(stdout[i].args[1], t)
         /\ stdout[i].fmt = "  ANTHROPIC_AUTH_TOKEN: {}"
              => IsMasked(stdout[i].args[1], Unwrap(env.ANTHROPIC_AUTH_TOKEN))

----------------------------------------------------------------------------
(* C7: an eval-mode switch to a configured provider N, current or not,     *)
(* whose save succeeds, sets current_provider = N, saves exactly once and  *)
(* writes to standard output exactly the export line of N's token and then *)
(* the export line of N's URL; the error stream stays empty.               *)
C7_EvalSwitchAlwaysReapplies ==
    [][ \A n \in Names :
          ( /\ ContainsKey(Loaded, n)
            /\ Called("use_eval", <<n>>)
            /\ NoSaveFailed(saves') )
          => /\ ret' = "Ok"
             /\ config'.current_provider = Some(n)
             /\ config'.providers = Loaded.providers
             /\ store' = config'
             /\ Len(saves') = 1
             /\ stdout' = << Line("export ANTHROPIC_AUTH_TOKEN=\"{}\"",
                                  <<GetProvider(Loaded, n).token>>),
                             Line("export ANTHROPIC_BASE_URL=\"{}\"",
                                  <<GetProvider(Loaded, n).api_url>>) >>
             /\ stderr' = <<>> ]_vars

\* an eval-mode switch that saved and printed the two export lines
C7_Witness ==
    /\ op.kind = "use_eval"
    /\ ret = "Ok"
    /\ saves = <<TRUE>>
    /\ config.current_provider = Some(op.args[1])
    /\ Len(stdout) = 2
    /\ stdout[1].args = <<GetProvider(config, op.args[1]).token>>
    /\ stdout[2].args = <<GetProvider(config, op.args[1]).api_url>>

----------------------------------------------------------------------------
(* C8: add_provider(name, url, token) leaves providers[name] = {url,       *)
(* token}, every other entry and current_provider as they were, names      *)
(* unique, one entry more if the name was absent and as many if it was     *)
(* present; the overwrite warning is printed iff the name was present.     *)
C8_AddIsLastWriteWins ==
    [][ \A name \in Names, api_url \in Urls, token \in Tokens :
          Called("add", <<name, api_url, token>>)
          => /\ ContainsKey(config', name)
             /\ GetProvider(config', name) = Provider(api_url, token)
             /\ \A m \in Names \ {name} :
                  /\ ContainsKey(config', m) <=> ContainsKey(Loaded, m)
                  /\ ContainsKey(Loaded, m)
                       => GetProvider(config', m) = GetProvider(Loaded, m)
             /\ config'.current_provider = Loaded.current_provider
             /\ Cardinality(ProviderNames(config')) = Len(config'.providers)
             /\ Len(config'.providers)
                  = Len(Loaded.providers) + (IF ContainsKey(Loaded, name) THEN 0 ELSE 1)
             /\ Has(stdout', Line("Service provider '{}' already exists, overwriting",
                                  <<name>>))
                  <=> ContainsKey(Loaded, name) ]_vars

\* an add that overwrote an entry, next to another provider, and warned
C8_Witness ==
    /\ op.kind = "add"
    /\ Len(config.providers) = 2
    /\ GetProvider(config, op.args[1]) = Provider(op.args[2], op.args[3])
    /\ Has(stdout, Line("Service provider '{}' already exists, overwriting", <<op.args[1]>>))

----------------------------------------------------------------------------
(* C9: when the save of add_provider fails the operation returns the       *)
(* error, the success notice is not printed, the in-memory Config holds    *)
(* the new or overwritten entry and the store is what it was.              *)
C9_AddSaveFailure ==
    [][ \A name \in Names, api_url \in Urls, token \in Tokens :
          ( Called("add", <<name, api_url, token>>) /\ saves' = <<FALSE>> )
          => /\ ret' = "Err"
             /\ ~Has(stdout', Line("Successfully added service provider '{}'", <<name>>))
             /\ ContainsKey(config', name)
             /\ GetProvider(config', name) = Provider(api_url, token)
             /\ store' = store ]_vars

\* an add whose save failed: the entry is in memory and not in the store
C9_Witness ==
    /\ op.kind = "add"
    /\ saves = <<FALSE>>
    /\ ret = "Err"
    /\ ContainsKey(config, op.args[1])
    /\ ~ContainsKey(store, op.args[1])

----------------------------------------------------------------------------
(* C10: list_providers renders, for every provider P that was added, an    *)
(* entry whose token field is the first min(8, len(token)) characters of   *)
(* the token followed by "****"; the entry has the active marker and the   *)
(* "(currently active)" line iff P is the current provider.                *)
C10_ListShowsMaskedPrefix ==
    op.kind = "list"
    => \A i \in 1..Len(config.providers) :
         LET e == config.providers[i]
         IN  \E j \in 1..Len(stdout) :
               /\ stdout[j].fmt = "  {} {}"
               /\ stdout[j].args[2] = e.name
               /\ stdout[j].args[1] = ActiveMarker <=> IsCurrent(config, e.name)
               /\ j + 3 <= Len(stdout)
               /\ stdout[j + 2]
                    = Line("    Token: {}", <<FirstChars(e.provider.token, MaskPrefixLen) \o Mask>>)
               /\ stdout[j + 3] = Text("    (currently active)") <=> IsCurrent(config, e.name)

----------------------------------------------------------------------------
(* C11: for a name N that is not configured, remove_provider(N) and the    *)
(* interactive use_provider(N) each return Ok without calling save and     *)
(* leave the providers, current_provider, the store and both environment   *)
(* variables as they were; no export line is printed.                      *)
C11_UnknownNameIsNotice ==
    [][ \A n \in Names :
          ( /\ ~ContainsKey(Loaded, n)
            /\ Called("remove", <<n>>) \/ Called("use", <<n>>) )
          => /\ ret' = "Ok"
             /\ saves' = <<>>
             /\ config'.providers = Loaded.providers
             /\ config'.current_provider = Loaded.current_provider
             /\ store' = store
             /\ env' = env
             /\ NoExportLine(stdout') ]_vars

\* an unknown name was given to remove or use while a provider is configured
\* and the token variable is set
C11_Witness ==
    /\ op.kind \in {"remove", "use"}
    /\ ~ContainsKey(config, op.args[1])
    /\ config.providers # <<>>
    /\ IsSome(env.ANTHROPIC_AUTH_TOKEN)
    /\ stdout = <<Line("Service provider '{}' does not exist", <<op.args[1]>>)>>
    /\ saves = <<>>
    /\ store = config

----------------------------------------------------------------------------
(* C12: check_environment reports exactly one of the statuses              *)
(* none-selected, configuration-error, match, mismatch, for every Config   *)
(* and environment.  none-selected is reported iff current_provider is     *)
(* None, with the 'cce use' suggestion when providers is non-empty and the *)
(* 'cce add' suggestion when it is empty; configuration-error is reported  *)
(* iff current_provider names a provider that is not configured.           *)
C12_DriftStatusIsTotalAndExclusive ==
    op.kind = "check"
    => /\ Cardinality(StatusesReported(stdout)) = 1
       /\ Has(stdout, NoneSelectedLine) <=> config.current_provider = None
       /\ Has(stdout, NoneSelectedLine)
            => IF config.providers # <<>>
               THEN Has(stdout, UseSuggestion) /\ ~Has(stdout, AddSuggestion)
               ELSE Has(stdout, AddSuggestion) /\ ~Has(stdout, UseSuggestion)
       /\ Has(stdout, ConfigErrorLine) <=> Dangling(config)

----------------------------------------------------------------------------
(* C13: when save fails during a switch to a configured provider N         *)
(* (use_provider with N not current, or use_provider_eval), the operation  *)
(* returns the store error, prints no export line on stdout, does not      *)
(* modify the environment variables and leaves the store as it was, while  *)
(* current_provider in memory is already N.                                *)
C13_SwitchSaveFailure ==
    [][ \A n \in Names :
          ( /\ ContainsKey(Loaded, n)
            /\ Called("use", <<n>>) \/ Called("use_eval", <<n>>)
            /\ saves' = <<FALSE>> )
          => /\ ret' = "Err"
             /\ NoExportLine(stdout')
             /\ env' = env
             /\ store' = store
             /\ config'.current_provider = Some(n) ]_vars

\* a switch whose save failed: N is current in memory and not in the store
C13_Witness ==
    /\ op.kind \in {"use", "use_eval"}
    /\ saves = <<FALSE>>
    /\ ret = "Err"
    /\ config.current_provider = Some(op.args[1])
    /\ store.current_provider # Some(op.args[1])
    /\ ContainsKey(store, op.args[1])
    /\ env.ANTHROPIC_AUTH_TOKEN # Some(GetProvider(store, op.args[1]).token)

----------------------------------------------------------------------------
(* C14: when two invocations both load the Config before either saves,    *)
(* the first changes its Config and saves, and the second saves after it,  *)
(* both saves succeed and both operations return Ok, the persisted Config  *)
(* equals the in-memory Config of the second invocation, which is the      *)
(* loaded Config with the second invocation's change alone; the first      *)
(* invocation's change is absent from the store unless the second          *)
(* invocation made the same change.                                        *)
C14_RaceKeepsOnlySecondUpdate ==
    \A p, q \in Invocations :
        LostUpdateRun(p, q)
        => /\ inv[p].ret = "Ok" /\ inv[q].ret = "Ok"
           /\ store = inv[q].config
           /\ store = Mutated(inv[p].loaded, inv[q].call)
           /\ Present(store, inv[p].call) => SameChange(inv[p].call, inv[q].call)

(* C14 as stated: in such a run the first invocation's change is absent    *)
(* from the store, whatever the second invocation did.                     *)
C14_RaceLosesFirstUpdate ==
    \A p, q \in Invocations :
        LostUpdateRun(p, q)
        => /\ inv[p].ret = "Ok" /\ inv[q].ret = "Ok"
           /\ store = inv[q].config
           /\ ~Present(store, inv[p].call)

\* the first invocation added a provider, the second switched, and the store
\* holds the switch without the added provider
C14_Witness ==
    \E p, q \in Invocations :
        /\ LostUpdateRun(p, q)
        /\ inv[p].call.kind = "add"
        /\ inv[q].call.kind = "use"
        /\ store = inv[q].config
        /\ store.current_provider = Some(inv[q].call.args[1])
        /\ ~ContainsKey(store, inv[p].call.args[1])

----------------------------------------------------------------------------
(* C15: every operation ends, with a return value or a panic, after at     *)
(* most one save call; an operation that changed the Config in memory      *)
(* called save, and a save that succeeded wrote the Config as the          *)
(* operation left it in memory, so no mutation follows the save;           *)
(* list_providers and check_environment never call save.                   *)
C15_AtMostOneSaveAfterMutation ==
    [][ op'.kind \in Operations
        => /\ ret' \in {"Ok", "Err", "Panic"}
           /\ Len(saves') <= 1
           /\ config' # Loaded => Len(saves') = 1
           /\ saves' = <<TRUE>> => store' = config'
           /\ op'.kind \in {"list", "check"} => saves' = <<>> /\ config' = Loaded ]_vars

\* a removal that changed the Config and saved it once
C15_Witness ==
    /\ op.kind = "remove"
    /\ saves = <<TRUE>>
    /\ ret = "Ok"
    /\ ~ContainsKey(config, op.args[1])
    /\ store = config
    /\ config.providers # <<>>

----------------------------------------------------------------------------
(* C16: whenever check_environment reports the mismatch status for the     *)
(* active provider N, use_provider(N) with a successful save sets both     *)
(* environment variables to N's stored values and prints the two export    *)
(* lines, so that check_environment run after it reports the match status. *)
C16_ResetSuggestionRestoresMatch ==
    [][ \A n \in Names :
          ( /\ Called("use", <<n>>)
            /\ IsCurrent(Loaded, n)
            /\ Has(CheckEnvironment(Loaded, store, env).stdout, MismatchLine)
            /\ NoSaveFailed(saves') )
          => /\ env' = SetVars(env, GetProvider(Loaded, n))
             /\ ExportsOf(stdout') = ExportLines(GetProvider(Loaded, n))
             /\ Has(CheckEnvironment(ConfigLoad(store'), store', env').stdout, MatchLine) ]_vars

----------------------------------------------------------------------------
(* C17: for a configured provider N that is not the current one and a save *)
(* that succeeds, use_provider(N) and use_provider_eval(N) run from the    *)
(* same state end with the same providers, the same current_provider and   *)
(* the same persisted Config, and print the same two export lines.         *)
C17_SwitchVariantsAgree ==
    [][ \A n \in Names :
          /\ ( /\ Called("use", <<n>>)
               /\ ContainsKey(Loaded, n) /\ ~IsCurrent(Loaded, n)
               /\ saves' = <<TRUE>> )
             => LET r == UseProviderEval(Loaded, store, env, n, TRUE)
                IN  /\ config' = r.config
                    /\ store' = r.store
                    /\ ExportsOf(stdout') = ExportsOf(r.stdout)
                    /\ Len(ExportsOf(stdout')) = 2
          /\ ( /\ Called("use_eval", <<n>>)
               /\ ContainsKey(Loaded, n) /\ ~IsCurrent(Loaded, n)
               /\ saves' = <<TRUE>> )
             => LET r == UseProvider(Loaded, store, env, n, TRUE)
                IN  /\ config' = r.config
                    /\ store' = r.store
                    /\ ExportsOf(stdout') = ExportsOf(r.stdout)
                    /\ Len(ExportsOf(stdout')) = 2 ]_vars

\* an interactive switch that saved and printed the export lines of the
\* eval variant for the provider it switched to
C17_Witness ==
    /\ op.kind = "use"
    /\ saves = <<TRUE>>
    /\ config.current_provider = Some(op.args[1])
    /\ store = config
    /\ Len(config.providers) = 2
    /\ ExportsOf(stdout) = EvalExportLines(GetProvider(config, op.args[1]))
    /\ Len(stdout) > 2

----------------------------------------------------------------------------
(* C18: use_provider and use_provider_eval set current_provider only to a  *)
(* name that is configured; add_provider and remove_provider never change  *)
(* current_provider; hence, starting from a Config whose current_provider  *)
(* is None or configured, every operation other than remove_provider       *)
(* leaves current_provider None or configured, in memory and in the store. *)
C18_DanglingOnlyFromRemoval ==
    /\ ~Dangling(config) /\ ~Dangling(store)
    /\ [][ /\ \A n \in Names :
                ( /\ Called("use", <<n>>) \/ Called("use_eval", <<n>>)
                  /\ config'.current_provider # Loaded.current_provider )
                => config'.current_provider = Some(n) /\ ContainsKey(config', n)
           /\ op'.kind \in {"add", "remove"}
                => /\ config'.current_provider = Loaded.current_provider
                   /\ store'.current_provider = store.current_provider
           /\ ( op'.kind \in Operations \ {"remove"} /\ ~Dangling(Loaded) )
                => ~Dangling(config') /\ ~Dangling(store') ]_vars

\* an eval-mode switch made a configured provider current while another
\* provider is configured too
C18_Witness ==
    /\ op.kind = "use_eval"
    /\ saves = <<TRUE>>
    /\ config.current_provider = Some(op.args[1])
    /\ ContainsKey(config, op.args[1])
    /\ Len(config.providers) = 2
    /\ ~Dangling(store)

----------------------------------------------------------------------------
(* C19: use_provider_eval never changes the environment variables of the   *)
(* process, whatever the Config, the name and the outcome of save; of all  *)
(* operations only use_provider changes them, and only after a save that   *)
(* succeeded.                                                              *)
C19_EvalNeverTouchesEnv ==
    [][ /\ op'.kind = "use_eval" => env' = env
        /\ ( op'.kind \in Operations /\ env' # env )
             => op'.kind = "use" /\ saves' = <<TRUE>> ]_vars

\* an eval-mode switch saved and printed the export lines of a provider
\* whose token is not the one in the environment
C19_Witness ==
    /\ op.kind = "use_eval"
    /\ saves = <<TRUE>>
    /\ ContainsKey(config, op.args[1])
    /\ stdout = EvalExportLines(GetProvider(config, op.args[1]))
    /\ env.ANTHROPIC_AUTH_TOKEN # Some(GetProvider(config, op.args[1]).token)
    /\ env.ANTHROPIC_BASE_URL # Some(GetProvider(config, op.args[1]).api_url)

====
